---- MODULE Spec2Model ----
(***************************************************************************)
(* A model of aiohomekit/zeroconf/__init__.py: the zeroconf announcement   *)
(* collector, the TXT-record codec (decode_discovery_properties,           *)
(* get_from_properties, parse_discovery_properties), the enumeration       *)
(* discover_homekit_devices, the targeted search _find_device_ip_and_port  *)
(* and its asyncio adapter async_find_device_ip_and_port.                  *)
(*                                                                         *)
(* Representation of Python values:                                        *)
(*   bytes  a sequence of integers 0..255                                  *)
(*   str    a sequence of one-character strings                            *)
(*   a value held in a dict or returned by a function is tagged:           *)
(*          [t |-> "None" | "str" | "int" | <class name>, v |-> ...]       *)
(*   dict   a sequence of <<key, value>> pairs with distinct keys, in      *)
(*          insertion order (Python dicts keep insertion order)            *)
(*   the outcome of a call is [exc |-> "None", val |-> v] when it returns  *)
(*          v and [exc |-> <exception class>, val |-> <<>>] when it raises *)
(***************************************************************************)
EXTENDS Integers, Sequences, FiniteSets, TLC

-----------------------------------------------------------------------------
(* Bounds of the model *)

\* the largest number of TXT entries of a property mapping given to the codec
MaxProps == 3
\* the largest number of announcements a browsing session of discover_homekit_devices delivers
MaxAnnounce == 2
\* the largest number of events the mechanism delivers to a session of _find_device_ip_and_port
MaxEvents == 2
\* the largest max_seconds a caller passes to _find_device_ip_and_port
MaxSeconds == 1
\* the latest step of the search (counted in its atomic steps) at which an event is scheduled
MaxAt == 5

-----------------------------------------------------------------------------
(* Python values *)

PyNone == [t |-> "None", v |-> 0]
PyStr(s) == [t |-> "str", v |-> s]
PyInt(n) == [t |-> "int", v |-> n]
PyObj(class, n) == [t |-> class, v |-> n]

\* bool(x), as `if x:` evaluates it
Truthy(x) ==
    CASE x.t = "None" -> FALSE
      [] x.t = "str"  -> Len(x.v) > 0
      [] x.t = "int"  -> x.v # 0
      [] OTHER        -> TRUE

\* the element of a one-element set
Only(S) == CHOOSE x \in S : TRUE

Return(v) == [exc |-> "None", val |-> v]
Raise(e) == [exc |-> e, val |-> <<>>]

\* k in d
DictHas(d, k) == \E i \in DOMAIN d : d[i][1] = k
\* d[k], for k in d
DictGet(d, k) == d[CHOOSE i \in DOMAIN d : d[i][1] = k][2]
\* d[k] = v: an existing key keeps its place, a new key goes last
DictSet(d, k, v) ==
    IF DictHas(d, k)
    THEN [i \in DOMAIN d |-> IF d[i][1] = k THEN <<k, v>> ELSE d[i]]
    ELSE Append(d, <<k, v>>)

RECURSIVE DictUpdateFrom(_, _, _)
DictUpdateFrom(d, e, i) ==
    IF i > Len(e) THEN d ELSE DictUpdateFrom(DictSet(d, e[i][1], e[i][2]), e, i + 1)
\* d.update(e)
DictUpdate(d, e) == DictUpdateFrom(d, e, 1)

-----------------------------------------------------------------------------
(* Characters: the printable ASCII range, code points 32..126; the four    *)
(* quoting characters are written by name                                  *)

Ascii ==
    << " ", "!", "<quote>", "#", "$", "%", "&", "<apostrophe>", "(", ")", "*", "+", ",", "-", ".", "/",
       "0", "1", "2", "3", "4", "5", "6", "7", "8", "9", ":", ";", "<", "=", ">", "?",
       "@", "A", "B", "C", "D", "E", "F", "G", "H", "I", "J", "K", "L", "M", "N", "O",
       "P", "Q", "R", "S", "T", "U", "V", "W", "X", "Y", "Z", "[", "<backslash>", "]", "^", "_",
       "<backtick>", "a", "b", "c", "d", "e", "f", "g", "h", "i", "j", "k", "l", "m", "n", "o",
       "p", "q", "r", "s", "t", "u", "v", "w", "x", "y", "z", "{", "|", "}", "~" >>

Chars == {Ascii[i] : i \in DOMAIN Ascii}
Chr(b) == Ascii[b - 31]
OrdTable == [c \in Chars |-> 31 + (CHOOSE i \in DOMAIN Ascii : Ascii[i] = c)]
Ord(c) == OrdTable[c]

\* str.lower() and str.upper() on one character and on a str
LowerTable ==
    [c \in Chars |-> IF Ord(c) >= Ord("A") /\ Ord(c) <= Ord("Z") THEN Chr(Ord(c) + 32) ELSE c]
UpperTable ==
    [c \in Chars |-> IF Ord(c) >= Ord("a") /\ Ord(c) <= Ord("z") THEN Chr(Ord(c) - 32) ELSE c]
Lower(s) == [i \in DOMAIN s |-> LowerTable[s[i]]]
Upper(s) == [i \in DOMAIN s |-> UpperTable[s[i]]]

\* str.encode("utf-8") of a str of ASCII characters
Encode(s) == [i \in DOMAIN s |-> Ord(s[i])]

\* bytes.decode("utf-8"). The payloads of the model hold ASCII bytes and the
\* byte 0xFF, which occurs in no UTF-8 sequence: a byte string decodes exactly
\* when all its bytes are below 0x80.
BytesDecode(bs) ==
    IF \A i \in DOMAIN bs : bs[i] < 128
    THEN Return([i \in DOMAIN bs |-> Chr(bs[i])])
    ELSE Raise("UnicodeDecodeError")

Digits == {"0", "1", "2", "3", "4", "5", "6", "7", "8", "9"}
RECURSIVE DecimalValue(_)
DecimalValue(s) ==
    IF Len(s) = 0 THEN 0
    ELSE 10 * DecimalValue(SubSeq(s, 1, Len(s) - 1)) + (Ord(s[Len(s)]) - Ord("0"))
\* int(s) for a str s: a base-10 literal (the texts of the model carry no sign,
\* blank or underscore), ValueError otherwise
PyIntOfStr(s) ==
    IF Len(s) > 0 /\ \A i \in DOMAIN s : s[i] \in Digits
    THEN Return(DecimalValue(s))
    ELSE Raise("ValueError")

RECURSIVE DecimalText(_)
DecimalText(n) ==
    IF n < 10 THEN <<Chr(Ord("0") + n)>>
    ELSE Append(DecimalText(n \div 10), Chr(Ord("0") + (n % 10)))
\* str(x) for a str or a non-negative int
PyStrOf(x) == IF x.t = "str" THEN x.v ELSE DecimalText(x.v)

-----------------------------------------------------------------------------
(* The keys of the advertisement schema and of the discovery record *)

kCnum == <<"c", "#">>
kFf == <<"f", "f">>
kFlags == <<"f", "l", "a", "g", "s">>
kId == <<"i", "d">>
kMd == <<"m", "d">>
kPv == <<"p", "v">>
kSnum == <<"s", "#">>
kSf == <<"s", "f">>
kStatusflags == <<"s", "t", "a", "t", "u", "s", "f", "l", "a", "g", "s">>
kCi == <<"c", "i">>
kCategory == <<"c", "a", "t", "e", "g", "o", "r", "y">>
kName == <<"n", "a", "m", "e">>
kAddress == <<"a", "d", "d", "r", "e", "s", "s">>
kPort == <<"p", "o", "r", "t">>

-----------------------------------------------------------------------------
(* The classification lookups of aiohomekit.model *)

\* FeatureFlags(flags): the bitmask classification of any integer
FeatureFlags(flags) == Return(PyObj("FeatureFlags", flags))
\* IpStatusFlags[n]: the classification of a status-flag value, failing out of range
IpStatusFlagsRange == 0 .. 7
IpStatusFlags(n) ==
    IF n \in IpStatusFlagsRange THEN Return(PyObj("IpStatusFlags", n)) ELSE Raise("KeyError")
\* Categories[n]: the category of a category number, failing out of range
CategoriesRange == 1 .. 32
Categories(n) ==
    IF n \in CategoriesRange THEN Return(PyObj("Categories", n)) ELSE Raise("KeyError")

-----------------------------------------------------------------------------
(* get_from_properties *)

RECURSIVE LowerKeyedFrom(_, _, _)
LowerKeyedFrom(out, props, i) ==
    IF i > Len(props) THEN out
    ELSE LowerKeyedFrom(DictSet(out, Lower(props[i][1]), props[i][2]), props, i + 1)
\* {k.lower(): props[k] for k in props}
LowerKeyed(props) == LowerKeyedFrom(<<>>, props, 1)

\* lines 88-91 with `default is not None` for `default`
DefaultOrNoneMutNotNone(default) == IF default # PyNone THEN PyStr(PyStrOf(default)) ELSE PyNone
\* the value returned when the key is absent (lines 88-91)
DefaultOrNone(default) == IF Truthy(default) THEN PyStr(PyStrOf(default)) ELSE PyNone

LookupKey(key, case_sensitive) == IF case_sensitive THEN key ELSE Lower(key)

get_from_properties(props, key, default, case_sensitive) ==
    LET tmp_props == IF case_sensitive THEN props ELSE LowerKeyed(props)
        tmp_key == LookupKey(key, case_sensitive)
    IN  IF DictHas(tmp_props, tmp_key) THEN DictGet(tmp_props, tmp_key)
        ELSE DefaultOrNone(default)

-----------------------------------------------------------------------------
(* decode_discovery_properties *)

RECURSIVE DecodeFrom(_, _, _)
DecodeFrom(out, props, i) ==
    IF i > Len(props) THEN Return(out)
    ELSE LET k == BytesDecode(props[i][1])
             value == BytesDecode(props[i][2])
         IN  IF k.exc # "None" THEN Raise(k.exc)
             ELSE IF value.exc # "None" THEN Raise(value.exc)
             ELSE DecodeFrom(DictSet(out, k.val, PyStr(value.val)), props, i + 1)
decode_discovery_properties(props) == DecodeFrom(<<>>, props, 1)

-----------------------------------------------------------------------------
(* parse_discovery_properties, one operator per block of the function. Each *)
(* takes the properties and the record built so far and gives the outcome  *)
(* of the block: the record extended, or the exception the block raises.   *)

\* lines 159-161
ParseConfNumber(props, data) ==
    LET conf_number == get_from_properties(props, kCnum, PyNone, FALSE)
    IN  Return(IF Truthy(conf_number) THEN DictSet(data, kCnum, conf_number) ELSE data)

\* lines 163-169
ParseFeatureFlags(props, data) ==
    LET feature_flags == get_from_properties(props, kFf, PyNone, FALSE)
        flags == IF Truthy(feature_flags) THEN PyIntOfStr(feature_flags.v) ELSE Return(0)
    IN  IF flags.exc # "None" THEN Raise(flags.exc)
        ELSE LET tagged == FeatureFlags(flags.val)
             IN  IF tagged.exc # "None" THEN Raise(tagged.exc)
                 ELSE Return(DictSet(DictSet(data, kFf, PyInt(flags.val)), kFlags, tagged.val))

\* lines 171-173
ParseDevId(props, data) ==
    LET dev_id == get_from_properties(props, kId, PyNone, FALSE)
    IN  Return(IF Truthy(dev_id) THEN DictSet(data, kId, dev_id) ELSE data)

\* lines 175-177
ParseModelName(props, data) ==
    LET model_name == get_from_properties(props, kMd, PyNone, FALSE)
    IN  Return(IF Truthy(model_name) THEN DictSet(data, kMd, model_name) ELSE data)

\* lines 179-183
ParseProtocolVersion(props, data) ==
    LET protocol_version == get_from_properties(props, kPv, PyStr(<<"1", ".", "0">>), FALSE)
    IN  Return(IF Truthy(protocol_version) THEN DictSet(data, kPv, protocol_version) ELSE data)

\* lines 185-187
ParseStatus(props, data) ==
    LET status == get_from_properties(props, kSnum, PyNone, FALSE)
    IN  Return(IF Truthy(status) THEN DictSet(data, kSnum, status) ELSE data)

\* the block without line 192
ParseStatusFlagMutNoClass(props, data) ==
    LET status_flag == get_from_properties(props, kSf, PyNone, FALSE)
    IN  Return(IF Truthy(status_flag) THEN DictSet(data, kSf, status_flag) ELSE data)

\* lines 189-192
ParseStatusFlag(props, data) ==
    LET status_flag == get_from_properties(props, kSf, PyNone, FALSE)
    IN  IF ~Truthy(status_flag) THEN Return(data)
        ELSE LET n == PyIntOfStr(status_flag.v)
             IN  IF n.exc # "None" THEN Raise(n.exc)
                 ELSE LET tagged == IpStatusFlags(n.val)
                      IN  IF tagged.exc # "None" THEN Raise(tagged.exc)
                          ELSE Return(DictSet(DictSet(data, kSf, status_flag),
                                              kStatusflags, tagged.val))

\* lines 194-198: the test reads the key in any casing, the value is then
\* read as props["ci"], which raises KeyError when the key is spelled otherwise
ParseCategory(props, data) ==
    LET category_id == get_from_properties(props, kCi, PyNone, FALSE)
    IN  IF ~Truthy(category_id) THEN Return(data)
        ELSE IF ~DictHas(props, kCi) THEN Raise("KeyError")
        ELSE LET category == DictGet(props, kCi)
                 n == PyIntOfStr(category.v)
             IN  IF n.exc # "None" THEN Raise(n.exc)
                 ELSE LET tagged == Categories(n.val)
                      IN  IF tagged.exc # "None" THEN Raise(tagged.exc)
                          ELSE Return(DictSet(DictSet(data, kCi, category),
                                              kCategory, tagged.val))

\* the i-th block of the function
ParseBlock(i, props, data) ==
    CASE i = 1 -> ParseConfNumber(props, data)
      [] i = 2 -> ParseFeatureFlags(props, data)
      [] i = 3 -> ParseDevId(props, data)
      [] i = 4 -> ParseModelName(props, data)
      [] i = 5 -> ParseProtocolVersion(props, data)
      [] i = 6 -> ParseStatus(props, data)
      [] i = 7 -> ParseStatusFlag(props, data)
      [] i = 8 -> ParseCategory(props, data)

\* the blocks from the i-th on, in program order, r being the outcome of the
\* blocks before: the first exception ends the function (each block is
\* evaluated once, its outcome bound to x)
RECURSIVE ParseFrom(_, _, _)
ParseFrom(props, r, i) ==
    IF i > 8 \/ r.exc # "None" THEN r
    ELSE Only({ParseFrom(props, x, i + 1) : x \in {ParseBlock(i, props, r.val)}})

\* the function with data starting as a copy of props
parse_discovery_propertiesMutKeepAll(props) == ParseFrom(props, Return(props), 1)
\* lines 156-200
parse_discovery_properties(props) == ParseFrom(props, Return(<<>>), 1)

-----------------------------------------------------------------------------
(* The property mappings the codec is applied to: at most MaxProps entries, *)
(* keys among the schema keys in lower and in upper case, values among the *)
(* texts below. Two spellings of one key may both occur, in either order.  *)

Txt0 == <<"0">>
Txt1 == <<"1">>
TxtFoo == <<"F", "o", "o">>
TxtEmpty == <<>>

\* the spellings, in the two orders a mapping may list them
SpellingsLowerFirst ==
    << kCnum, Upper(kCnum), kFf, Upper(kFf), kId, Upper(kId), kMd, Upper(kMd),
       kPv, Upper(kPv), kSnum, Upper(kSnum), kSf, Upper(kSf), kCi, Upper(kCi) >>
SpellingsUpperFirst ==
    [i \in DOMAIN SpellingsLowerFirst |->
        SpellingsLowerFirst[IF i % 2 = 1 THEN i + 1 ELSE i - 1]]

\* the texts a key is advertised with
TextsOf(key) ==
    IF Lower(key) \in {kFf, kSf, kCi} THEN {TxtEmpty, Txt0, Txt1, TxtFoo}
    ELSE IF Lower(key) \in {kMd, kId} THEN {TxtEmpty, TxtFoo}
    ELSE {TxtEmpty, Txt1}

Texts == {TxtEmpty, Txt0, Txt1, TxtFoo}
Increasing(n, k) == {s \in [1 .. k -> 1 .. n] : \A i \in 1 .. k - 1 : s[i] < s[i + 1]}

\* the mapping that lists the spellings numbered s[1] < ... < s[k] with the texts v
MappingOf(spellings, s, v) == [i \in DOMAIN s |-> <<spellings[s[i]], PyStr(v[i])>>]

\* p is one of the mappings described above
IsCodecInput(p) ==
    \E spellings \in {SpellingsLowerFirst, SpellingsUpperFirst}, k \in 0 .. MaxProps :
        \E s \in Increasing(Len(spellings), k), v \in [1 .. k -> Texts] :
            /\ \A i \in 1 .. k : v[i] \in TextsOf(spellings[s[i]])
            /\ p = MappingOf(spellings, s, v)

-----------------------------------------------------------------------------
(* The browsing mechanism (zeroconf.Zeroconf, zeroconf.ServiceBrowser) as   *)
(* the module uses it, and CollectingListener                               *)

\* Zeroconf(): a session with no browser started and not closed
Zeroconf == [browsers |-> 0, closes |-> 0]
\* ServiceBrowser(zeroconf, "_hap._tcp.local.", listener)
ServiceBrowser(zeroconf) == [zeroconf EXCEPT !.browsers = @ + 1]
\* close() leaving the session open
ZeroconfCloseMutNoop(zeroconf) == zeroconf
\* zeroconf.close()
ZeroconfClose(zeroconf) == [zeroconf EXCEPT !.closes = @ + 1]
\* the session delivers events to its listener
Browsing(zeroconf) == zeroconf.browsers > 0 /\ zeroconf.closes = 0

\* a ServiceInfo as zeroconf.get_service_info returns it
ServiceInfo(name, address, port, properties) ==
    PyObj("ServiceInfo",
          [name |-> name, addresses |-> <<address>>, port |-> port, properties |-> properties])

\* CollectingListener.__init__
CollectingListener == <<>>
\* add_service appending the announcement twice
add_serviceMutTwice(data, info) ==
    IF info # PyNone THEN Append(Append(data, info.v), info.v) ELSE data
\* CollectingListener.add_service, given what zeroconf.get_service_info returned
add_service(data, info) == IF info # PyNone THEN Append(data, info.v) ELSE data
\* remove_service forgetting the announcements of the name
remove_serviceMutForget(data, name) == SelectSeq(data, LAMBDA info : info.name # name)
\* CollectingListener.remove_service(zeroconf, zeroconf_type, name)
remove_service(data, name) == data
\* CollectingListener.get_data
get_data(data) == data

\* inet_ntoa(packed): the dotted-quad text of four bytes, OSError otherwise
inet_ntoa(packed) ==
    IF Len(packed) = 4
    THEN Return(PyStr(DecimalText(packed[1]) \o <<".">> \o DecimalText(packed[2]) \o <<".">>
                      \o DecimalText(packed[3]) \o <<".">> \o DecimalText(packed[4])))
    ELSE Raise("OSError")

-----------------------------------------------------------------------------
(* discover_homekit_devices: the body of its for loop *)

\* lines 109-119: the candidate record of one announcement
CandidateData(info) ==
    IF Len(info.addresses) = 0 THEN Raise("IndexError")
    ELSE LET address == inet_ntoa(info.addresses[1])
         IN  IF address.exc # "None" THEN Raise(address.exc)
             ELSE LET data == << <<kName, PyStr(info.name)>>,
                                 <<kAddress, address.val>>,
                                 <<kPort, PyInt(info.port)>> >>
                      decoded == decode_discovery_properties(info.properties)
                  IN  IF decoded.exc # "None" THEN Raise(decoded.exc)
                      ELSE LET fields == parse_discovery_properties(decoded.val)
                           IN  IF fields.exc # "None" THEN Raise(fields.exc)
                               ELSE Return(DictUpdate(data, fields.val))

\* line 124 skipping a record whose id is in the list already
TmpAppendMutDedup(tmp, data) ==
    IF \E j \in DOMAIN tmp :
           DictHas(tmp[j], kId) /\ DictHas(data, kId) /\ DictGet(tmp[j], kId) = DictGet(data, kId)
    THEN tmp
    ELSE Append(tmp, data)
\* line 124: tmp.append(data)
TmpAppend(tmp, data) == Append(tmp, data)

\* line 121 with `and` for `or`
IsIncompleteMutAnd(data) == ~DictHas(data, kCnum) /\ ~DictHas(data, kMd)
\* line 121: "c#" not in data or "md" not in data
IsIncomplete(data) == ~DictHas(data, kCnum) \/ ~DictHas(data, kMd)

\* the announcements a session of discover_homekit_devices receives: the n-th
\* is named dev<n>, its payload lists c#, then md in one or two spellings,
\* then ff, each or none of them, then the last entries; its port is 8000 + n - 1
BytesFF == <<255>>
PayloadCnum == {<<>>, <<<<Encode(kCnum), Encode(TxtEmpty)>>>>, <<<<Encode(kCnum), Encode(Txt1)>>>>}
PayloadMd ==
    {<<>>, <<<<Encode(kMd), Encode(TxtEmpty)>>>>, <<<<Encode(kMd), Encode(TxtFoo)>>>>,
     <<<<Encode(Upper(kMd)), Encode(TxtFoo)>>>>,
     <<<<Encode(kMd), Encode(TxtEmpty)>>, <<Encode(Upper(kMd)), Encode(TxtFoo)>>>>,
     <<<<Encode(Upper(kMd)), Encode(TxtFoo)>>, <<Encode(kMd), Encode(TxtEmpty)>>>>}
PayloadFf == {<<>>, <<<<Encode(kFf), Encode(TxtFoo)>>>>, <<<<Encode(kFf), BytesFF>>>>}
DeviceName(n) == <<"d", "e", "v">> \o DecimalText(n)
DiscoverAddress == <<10, 0, 0, 1>>

-----------------------------------------------------------------------------
(* _find_device_ip_and_port and async_find_device_ip_and_port: their steps  *)

\* line 212: counter = max_seconds * 2
InitialCounter(max_seconds) == max_seconds * 2

\* line 215 with > for >=
LoopContinuesMutStrict(counter) == counter > 0
\* line 215: while counter >= 0
LoopContinues(counter) == counter >= 0

\* line 218 matching only announcements that list c# and md
IdMatchesMutComplete(info, device_id) ==
    IF ~DictHas(info.properties, Encode(kId)) THEN Raise("KeyError")
    ELSE IF ~DictHas(info.properties, Encode(kCnum)) \/ ~DictHas(info.properties, Encode(kMd))
    THEN Return(FALSE)
    ELSE LET id == BytesDecode(DictGet(info.properties, Encode(kId)))
         IN  IF id.exc # "None" THEN Raise(id.exc) ELSE Return(id.val = device_id)
\* line 218: info.properties[b"id"].decode() == device_id
IdMatches(info, device_id) ==
    IF ~DictHas(info.properties, Encode(kId)) THEN Raise("KeyError")
    ELSE LET id == BytesDecode(DictGet(info.properties, Encode(kId)))
         IN  IF id.exc # "None" THEN Raise(id.exc) ELSE Return(id.val = device_id)

\* line 219: (inet_ntoa(info.addresses[0]), info.port)
FoundValue(info) ==
    IF Len(info.addresses) = 0 THEN Raise("IndexError")
    ELSE LET address == inet_ntoa(info.addresses[1])
         IN  IF address.exc # "None" THEN Raise(address.exc)
             ELSE Return(<<address.val, PyInt(info.port)>>)

\* lines 223-224 left out
FinallyMutNoClose(zeroconf) == zeroconf
\* lines 223-224: finally: zeroconf.close()
Finally(zeroconf) == ZeroconfClose(zeroconf)

\* line 226
DeviceNotFound == Raise("AccessoryNotFoundError")

\* the default of max_seconds (lines 203 and 230)
DefaultMaxSeconds == 10
\* lines 233-236 with max_seconds not handed on
PartialMutDefault(device_id, max_seconds) ==
    [device_id |-> device_id, max_seconds |-> DefaultMaxSeconds]
\* lines 233-236: partial(_find_device_ip_and_port, device_id=device_id, max_seconds=max_seconds)
Partial(device_id, max_seconds) == [device_id |-> device_id, max_seconds |-> max_seconds]

\* the device identifiers of the model, and the payloads of a session of
\* _find_device_ip_and_port: no entry, the identifier searched for, another
\* one, an id that is not UTF-8, and the identifier searched for with an ff
\* that is no number; none of them lists c# or md
IdA == <<"A", "1">>
IdB == <<"B", "2">>
PayloadId ==
    {<<>>, <<<<Encode(kId), Encode(IdA)>>>>, <<<<Encode(kId), Encode(IdB)>>>>,
     <<<<Encode(kId), BytesFF>>>>,
     <<<<Encode(kId), Encode(IdA)>>, <<Encode(kFf), Encode(TxtFoo)>>>>}

\* the last entries of a payload in a session of discover_homekit_devices:
\* none, an id (the one identifier, which two announcements may share), or
\* the id and entries with the keys name, address and port
DiscoverPayloadRest ==
    {<<>>, <<<<Encode(kId), Encode(IdA)>>>>,
     <<<<Encode(kId), Encode(IdA)>>, <<Encode(kName), Encode(TxtFoo)>>,
       <<Encode(kAddress), Encode(Txt1)>>, <<Encode(kPort), Encode(Txt1)>>>>}

\* the payloads of a session of discover_homekit_devices: every choice of
\* c#, md and ff without last entries, and the last entries after c# = "1"
\* and md = "Foo" or no md
DiscoverPayloads ==
    {c \o m \o f : c \in PayloadCnum, m \in PayloadMd, f \in PayloadFf}
    \cup {<<<<Encode(kCnum), Encode(Txt1)>>>> \o m \o d :
              m \in {<<>>, <<<<Encode(kMd), Encode(TxtFoo)>>>>}, d \in DiscoverPayloadRest}

\* what an event of a session is: remove_service, or add_service with
\* get_service_info giving None or an announcement with one of the id entries
EventChoices ==
    {[kind |-> "remove", resolved |-> FALSE, id |-> <<>>],
     [kind |-> "add", resolved |-> FALSE, id |-> <<>>]}
    \cup {[kind |-> "add", resolved |-> TRUE, id |-> id] : id \in PayloadId}

\* the k-th event of a session: add_service is called with the name dev<k>,
\* its announcement is at 10.0.0.<k>, port 8000 + k; remove_service is called
\* with the name dev1, the name of the first event
EventOf(k, choice) ==
    [kind |-> choice.kind,
     name |-> IF choice.kind = "remove" THEN DeviceName(1) ELSE DeviceName(k),
     info |-> IF choice.resolved
              THEN ServiceInfo(DeviceName(k), <<10, 0, 0, k>>, 8000 + k, choice.id)
              ELSE PyNone]

\* a feed: the events the mechanism delivers to a session, in order, each with
\* the number of steps of the search after which it arrives
FeedOf(choice, at) == [k \in DOMAIN choice |-> [event |-> EventOf(k, choice[k]), at |-> at[k]]]

-----------------------------------------------------------------------------
VARIABLES
    props,      \* codec: the str-keyed property mapping handed to the codec
    parsed,     \* codec: the outcome of parse_discovery_properties(props), or NotCalled
    looked,     \* codec: the arguments and the result of get_from_properties, or NotLooked
    dpc,        \* discover: where the call is: "idle", "sleeping", "loop", "returned", "raised"
    dzeroconf,  \* discover: the Zeroconf instance of the call
    ddata,      \* discover: listener.data
    di,         \* discover: the number of items the for loop has taken from listener.data
    dsnap,      \* discover: the length of the list when get_data() returned it (line 107)
    dtmp,       \* discover: the list tmp
    dout,       \* discover: what the call gave its caller, or NotCalled
    devents,    \* discover: the number of events the mechanism has delivered
    request,    \* find: the arguments [device_id, max_seconds] of the caller
    feed,       \* find: the events the mechanism delivers to a session and when
    fpc,        \* find: per call, where it is: "idle", "ready", "test", "scan", "finally",
                \*       "returned", "raised"
    fargs,      \* find: per call, its arguments
    fzeroconf,  \* find: per call, its Zeroconf instance
    fdata,      \* find: per call, listener.data
    counter,    \* find: per call, the local counter
    fi,         \* find: per call, the number of items the for loop has taken
    fsnap,      \* find: per call, the length of the list when get_data() last returned it
    fpending,   \* find: per call, what the try block ended with, for the finally clause
    fout,       \* find: per call, what it gave its caller, or NotCalled
    polls,      \* find: per call, the number of listener.get_data() calls (line 216)
    fclock,     \* find: per call, the number of steps taken since the browser started
    fdelivered, \* find: per call, the number of events delivered to its listener
    apc,        \* adapter: where the coroutine is: "idle", "awaiting", "returned", "raised"
    aout        \* adapter: what the coroutine gave its caller, or NotCalled

NotCalled == [exc |-> "NotCalled", val |-> <<>>]

\* no call of get_from_properties was made
NotLooked ==
    [called |-> FALSE, key |-> <<>>, default |-> PyNone, case_sensitive |-> TRUE,
     result |-> PyNone]

codecVars == <<props, parsed, looked>>
discoverVars == <<dpc, dzeroconf, ddata, di, dsnap, dtmp, dout, devents>>
findVars ==
    <<request, feed, fpc, fargs, fzeroconf, fdata, counter, fi, fsnap, fpending, fout, polls,
      fclock, fdelivered, apc, aout>>
vars ==
    <<props, parsed, looked, dpc, dzeroconf, ddata, di, dsnap, dtmp, dout, devents,
      request, feed, fpc, fargs, fzeroconf, fdata, counter, fi, fsnap, fpending, fout, polls,
      fclock, fdelivered, apc, aout>>

\* the two calls of _find_device_ip_and_port: the one a caller makes directly
\* and the one the executor makes for async_find_device_ip_and_port
Calls == {"sync", "worker"}

CodecIdle == props = <<>> /\ parsed = NotCalled /\ looked = NotLooked
DiscoverIdle ==
    /\ dpc = "idle" /\ dzeroconf = Zeroconf /\ ddata = <<>> /\ di = 0 /\ dsnap = 0
    /\ dtmp = <<>> /\ dout = NotCalled /\ devents = 0
FindIdleWith(req, f) ==
    /\ request = req
    /\ feed = f
    /\ fpc = [c \in Calls |-> "idle"]
    /\ fargs = [c \in Calls |-> req]
    /\ fzeroconf = [c \in Calls |-> Zeroconf]
    /\ fdata = [c \in Calls |-> <<>>]
    /\ counter = [c \in Calls |-> 0]
    /\ fi = [c \in Calls |-> 0]
    /\ fsnap = [c \in Calls |-> 0]
    /\ fpending = [c \in Calls |-> NotCalled]
    /\ fout = [c \in Calls |-> NotCalled]
    /\ polls = [c \in Calls |-> 0]
    /\ fclock = [c \in Calls |-> 0]
    /\ fdelivered = [c \in Calls |-> 0]
    /\ apc = "idle"
    /\ aout = NotCalled
FindIdle == FindIdleWith([device_id |-> IdA, max_seconds |-> 0], <<>>)

-----------------------------------------------------------------------------
(* The codec applied to one mapping *)

InitCodec ==
    /\ IsCodecInput(props)
    /\ parsed = NotCalled
    /\ looked = NotLooked
    /\ DiscoverIdle
    /\ FindIdle

\* a caller applies parse_discovery_properties to the mapping
Normalize ==
    /\ parsed = NotCalled
    /\ parsed' = parse_discovery_properties(props)
    /\ UNCHANGED <<props, looked, discoverVars, findVars>>

NextCodec == Normalize
SpecCodec == InitCodec /\ [][NextCodec]_vars

-----------------------------------------------------------------------------
(* get_from_properties applied to one mapping that lists pv and md, in any  *)
(* casing, or neither                                                       *)

\* the keys looked up and the defaults given
LookupKeys == {kPv, Upper(kPv)}
LookupDefaults == {PyNone, PyInt(0), PyStr(TxtEmpty), PyInt(10), PyStr(<<"1", ".", "0">>)}

InitLookup ==
    /\ IsCodecInput(props)
    /\ \A i \in DOMAIN props : Lower(props[i][1]) \in {kPv, kMd}
    /\ parsed = NotCalled
    /\ looked = NotLooked
    /\ DiscoverIdle
    /\ FindIdle

\* a caller calls get_from_properties(props, key, default, case_sensitive);
\* the function assigns to nothing but its locals (lines 78-91)
Lookup ==
    /\ ~looked.called
    /\ \E key \in LookupKeys, default \in LookupDefaults, case_sensitive \in BOOLEAN :
          looked' = [called |-> TRUE, key |-> key, default |-> default,
                     case_sensitive |-> case_sensitive,
                     result |-> get_from_properties(props, key, default, case_sensitive)]
    /\ UNCHANGED <<props, parsed, discoverVars, findVars>>

NextLookup == Lookup
SpecLookup == InitLookup /\ [][NextLookup]_vars

-----------------------------------------------------------------------------
(* One call of discover_homekit_devices and the events of its session *)

InitDiscover == CodecIdle /\ DiscoverIdle /\ FindIdle

\* lines 102-104: the session is opened and the browser started; then the
\* caller sleeps (line 105)
DiscoverCall ==
    /\ dpc = "idle"
    /\ dzeroconf' = ServiceBrowser(Zeroconf)
    /\ ddata' = CollectingListener
    /\ dpc' = "sleeping"
    /\ UNCHANGED <<di, dsnap, dtmp, dout, devents, codecVars, findVars>>

\* the browser thread calls listener.add_service; get_service_info gives an
\* announcement or None
DiscoverAddService ==
    /\ Browsing(dzeroconf)
    /\ devents < MaxAnnounce
    /\ \E payload \in DiscoverPayloads, resolved \in BOOLEAN :
          LET info == IF resolved
                      THEN ServiceInfo(DeviceName(devents + 1), DiscoverAddress, 8000 + devents,
                                       payload)
                      ELSE PyNone
          IN  ddata' = add_service(ddata, info)
    /\ devents' = devents + 1
    /\ UNCHANGED <<dpc, dzeroconf, di, dsnap, dtmp, dout, codecVars, findVars>>

\* the browser thread calls listener.remove_service, with the name dev1
DiscoverRemoveService ==
    /\ Browsing(dzeroconf)
    /\ devents < MaxAnnounce
    /\ ddata' = remove_service(ddata, DeviceName(1))
    /\ devents' = devents + 1
    /\ UNCHANGED <<dpc, dzeroconf, di, dsnap, dtmp, dout, codecVars, findVars>>

\* line 105-107: sleep(max_seconds) ends; tmp = []; the loop starts on the
\* list listener.get_data() returns, which is listener.data itself
DiscoverWake ==
    /\ dpc = "sleeping"
    /\ dtmp' = <<>>
    /\ dsnap' = Len(get_data(ddata))
    /\ di' = 0
    /\ dpc' = "loop"
    /\ UNCHANGED <<dzeroconf, ddata, dout, devents, codecVars, findVars>>

\* lines 107-124: one iteration of the loop; an exception of the body leaves
\* the function at once
DiscoverIterate ==
    /\ dpc = "loop"
    /\ di < Len(get_data(ddata))
    /\ \E data \in {CandidateData(get_data(ddata)[di + 1])} :
          IF data.exc # "None"
          THEN /\ dpc' = "raised"
               /\ dout' = Raise(data.exc)
               /\ UNCHANGED <<di, dtmp>>
          ELSE /\ dtmp' = IF IsIncomplete(data.val) THEN dtmp ELSE TmpAppend(dtmp, data.val)
               /\ di' = di + 1
               /\ UNCHANGED <<dpc, dout>>
    /\ UNCHANGED <<dzeroconf, ddata, dsnap, devents, codecVars, findVars>>

\* lines 107, 126-127: the list is exhausted; zeroconf.close(); return tmp
DiscoverReturn ==
    /\ dpc = "loop"
    /\ di >= Len(get_data(ddata))
    /\ dzeroconf' = ZeroconfClose(dzeroconf)
    /\ dout' = Return(dtmp)
    /\ dpc' = "returned"
    /\ UNCHANGED <<ddata, di, dsnap, dtmp, devents, codecVars, findVars>>

NextDiscover ==
    \/ DiscoverCall
    \/ DiscoverAddService
    \/ DiscoverRemoveService
    \/ DiscoverWake
    \/ DiscoverIterate
    \/ DiscoverReturn
SpecDiscover == InitDiscover /\ [][NextDiscover]_vars

-----------------------------------------------------------------------------
(* Calls of _find_device_ip_and_port, directly and through                  *)
(* async_find_device_ip_and_port, each with its own session, to which the   *)
(* mechanism delivers the events of the feed. The caller makes the direct   *)
(* call first and the asynchronous one when that has ended.                 *)

InitFind ==
    /\ CodecIdle /\ DiscoverIdle
    /\ \E s \in 0 .. MaxSeconds, n \in 0 .. MaxEvents :
          \E choice \in [1 .. n -> EventChoices], at \in [1 .. n -> 0 .. MaxAt] :
              /\ \A k \in 1 .. n - 1 : at[k] <= at[k + 1]
              /\ FindIdleWith([device_id |-> IdA, max_seconds |-> s], FeedOf(choice, at))

FindEnded(c) == fpc[c] \in {"returned", "raised"}

\* the next event of the feed is due in the session of call c
EventDue(c) ==
    /\ Browsing(fzeroconf[c])
    /\ fdelivered[c] < Len(feed)
    /\ feed[fdelivered[c] + 1].at <= fclock[c]
\* the call takes its next step when the events due have been delivered
MayStep(c) == ~EventDue(c)

\* the caller calls _find_device_ip_and_port(device_id, max_seconds)
SyncCall ==
    /\ fpc["sync"] = "idle"
    /\ fargs' = [fargs EXCEPT !["sync"] = request]
    /\ fpc' = [fpc EXCEPT !["sync"] = "ready"]
    /\ UNCHANGED <<request, feed, fzeroconf, fdata, counter, fi, fsnap, fpending, fout, polls,
                   fclock, fdelivered, apc, aout, codecVars, discoverVars>>

\* lines 232-236: the coroutine hands the call to the executor and awaits it
AsyncCall ==
    /\ apc = "idle"
    /\ FindEnded("sync")
    /\ fargs' = [fargs EXCEPT !["worker"] = Partial(request.device_id, request.max_seconds)]
    /\ fpc' = [fpc EXCEPT !["worker"] = "ready"]
    /\ apc' = "awaiting"
    /\ UNCHANGED <<request, feed, fzeroconf, fdata, counter, fi, fsnap, fpending, fout, polls,
                   fclock, fdelivered, aout, codecVars, discoverVars>>

\* lines 209-212: the session is opened, the browser started, the counter set
FindStart(c) ==
    /\ fpc[c] = "ready"
    /\ fzeroconf' = [fzeroconf EXCEPT ![c] = ServiceBrowser(Zeroconf)]
    /\ fdata' = [fdata EXCEPT ![c] = CollectingListener]
    /\ counter' = [counter EXCEPT ![c] = InitialCounter(fargs[c].max_seconds)]
    /\ fpc' = [fpc EXCEPT ![c] = "test"]
    /\ UNCHANGED <<request, feed, fargs, fi, fsnap, fpending, fout, polls, fclock, fdelivered,
                   apc, aout, codecVars, discoverVars>>

\* the browser thread calls listener.add_service
FindAddService(c) ==
    /\ EventDue(c)
    /\ feed[fdelivered[c] + 1].event.kind = "add"
    /\ fdata' = [fdata EXCEPT ![c] = add_service(@, feed[fdelivered[c] + 1].event.info)]
    /\ fdelivered' = [fdelivered EXCEPT ![c] = @ + 1]
    /\ UNCHANGED <<request, feed, fpc, fargs, fzeroconf, counter, fi, fsnap, fpending, fout, polls,
                   fclock, apc, aout, codecVars, discoverVars>>

\* the browser thread calls listener.remove_service
FindRemoveService(c) ==
    /\ EventDue(c)
    /\ feed[fdelivered[c] + 1].event.kind = "remove"
    /\ fdata' = [fdata EXCEPT ![c] = remove_service(@, feed[fdelivered[c] + 1].event.name)]
    /\ fdelivered' = [fdelivered EXCEPT ![c] = @ + 1]
    /\ UNCHANGED <<request, feed, fpc, fargs, fzeroconf, counter, fi, fsnap, fpending, fout, polls,
                   fclock, apc, aout, codecVars, discoverVars>>

\* lines 215-217: the loop test; when it holds, data = listener.get_data()
\* and the for loop starts; when it fails, the try block ends
FindTest(c) ==
    /\ fpc[c] = "test"
    /\ MayStep(c)
    /\ IF LoopContinues(counter[c])
       THEN /\ polls' = [polls EXCEPT ![c] = @ + 1]
            /\ fsnap' = [fsnap EXCEPT ![c] = Len(get_data(fdata[c]))]
            /\ fi' = [fi EXCEPT ![c] = 0]
            /\ fpc' = [fpc EXCEPT ![c] = "scan"]
            /\ UNCHANGED fpending
       ELSE /\ fpending' = [fpending EXCEPT ![c] = DeviceNotFound]
            /\ fpc' = [fpc EXCEPT ![c] = "finally"]
            /\ UNCHANGED <<polls, fi, fsnap>>
    /\ fclock' = [fclock EXCEPT ![c] = @ + 1]
    /\ UNCHANGED <<request, feed, fargs, fzeroconf, fdata, counter, fout, fdelivered,
                   apc, aout, codecVars, discoverVars>>

\* lines 217-219: the for loop takes the next item of the list and compares
\* its id; a match, or an exception of the comparison, ends the try block
FindInspect(c) ==
    /\ fpc[c] = "scan"
    /\ MayStep(c)
    /\ fi[c] < Len(get_data(fdata[c]))
    /\ \E info \in {get_data(fdata[c])[fi[c] + 1]} :
       \E m \in {IdMatches(info, fargs[c].device_id)} :
          IF m.exc # "None"
          THEN /\ fpending' = [fpending EXCEPT ![c] = Raise(m.exc)]
               /\ fpc' = [fpc EXCEPT ![c] = "finally"]
               /\ UNCHANGED fi
          ELSE IF m.val
          THEN /\ fpending' = [fpending EXCEPT ![c] = FoundValue(info)]
               /\ fpc' = [fpc EXCEPT ![c] = "finally"]
               /\ UNCHANGED fi
          ELSE /\ fi' = [fi EXCEPT ![c] = @ + 1]
               /\ UNCHANGED <<fpending, fpc>>
    /\ fclock' = [fclock EXCEPT ![c] = @ + 1]
    /\ UNCHANGED <<request, feed, fargs, fzeroconf, fdata, counter, fsnap, fout, polls, fdelivered,
                   apc, aout, codecVars, discoverVars>>

\* lines 217, 221-222: the list is exhausted; counter -= 1; sleep(0.5)
FindSleep(c) ==
    /\ fpc[c] = "scan"
    /\ MayStep(c)
    /\ fi[c] >= Len(get_data(fdata[c]))
    /\ counter' = [counter EXCEPT ![c] = @ - 1]
    /\ fpc' = [fpc EXCEPT ![c] = "test"]
    /\ fclock' = [fclock EXCEPT ![c] = @ + 1]
    /\ UNCHANGED <<request, feed, fargs, fzeroconf, fdata, fi, fsnap, fpending, fout, polls,
                   fdelivered, apc, aout, codecVars, discoverVars>>

\* lines 223-226: the finally clause runs, then the call gives its caller the
\* value returned, the exception raised, or AccessoryNotFoundError
FindFinally(c) ==
    /\ fpc[c] = "finally"
    /\ fzeroconf' = [fzeroconf EXCEPT ![c] = Finally(@)]
    /\ fout' = [fout EXCEPT ![c] = fpending[c]]
    /\ fpc' = [fpc EXCEPT ![c] = IF fpending[c].exc = "None" THEN "returned" ELSE "raised"]
    /\ UNCHANGED <<request, feed, fargs, fdata, counter, fi, fsnap, fpending, polls, fclock,
                   fdelivered, apc, aout, codecVars, discoverVars>>

\* line 233: the awaited future is done; the coroutine returns its result or
\* raises its exception
AsyncResume ==
    /\ apc = "awaiting"
    /\ FindEnded("worker")
    /\ aout' = fout["worker"]
    /\ apc' = IF fout["worker"].exc = "None" THEN "returned" ELSE "raised"
    /\ UNCHANGED <<request, feed, fpc, fargs, fzeroconf, fdata, counter, fi, fsnap, fpending, fout,
                   polls, fclock, fdelivered, codecVars, discoverVars>>

NextFind ==
    \/ SyncCall
    \/ AsyncCall
    \/ AsyncResume
    \/ \E c \in Calls :
          \/ FindStart(c)
          \/ FindAddService(c)
          \/ FindRemoveService(c)
          \/ FindTest(c)
          \/ FindInspect(c)
          \/ FindSleep(c)
          \/ FindFinally(c)
SpecFind == InitFind /\ [][NextFind]_vars

-----------------------------------------------------------------------------
(* Properties of the codec, checked under SpecCodec *)

\* the entries of p whose key is `key` in some casing
Spelled(p, key) == {i \in DOMAIN p : Lower(p[i][1]) = key}
\* p lists no key in two casings
SingleCasing(p) == \A i, j \in DOMAIN p : Lower(p[i][1]) = Lower(p[j][1]) => i = j
\* p with every key in lower case
LowerSpelled(p) == [i \in DOMAIN p |-> <<Lower(p[i][1]), p[i][2]>>]
\* the last entry of p that spells `key` carries a non-empty text
AdvertisedNonEmpty(p, key) ==
    \E i \in Spelled(p, key) : Len(p[i][2].v) > 0 /\ \A j \in Spelled(p, key) : j <= i

\* C9: parse_discovery_properties gives the same outcome for a mapping that
\* lists each key in one casing and for the same mapping with lower-case keys.
C9_CaseInsensitive ==
    (parsed # NotCalled /\ SingleCasing(props))
        => parsed = parse_discovery_properties(LowerSpelled(props))

\* the mapping {c#: "1", ff: "0", md: "Foo"} of C10
C10Example == <<<<kCnum, PyStr(Txt1)>>, <<kFf, PyStr(Txt0)>>, <<kMd, PyStr(TxtFoo)>>>>
C10ExampleRecord ==
    (props = C10Example /\ parsed # NotCalled) =>
        /\ parsed.exc = "None"
        /\ DictGet(parsed.val, kCnum) = PyStr(Txt1)
        /\ DictGet(parsed.val, kMd) = PyStr(TxtFoo)
        /\ DictGet(parsed.val, kFf) = PyInt(0)
        /\ DictGet(parsed.val, kFlags) = FeatureFlags(0).val
        /\ ~DictHas(parsed.val, kCategory)
        /\ ~DictHas(parsed.val, kStatusflags)

\* C10 as stated: in a record parse_discovery_properties produces, statusflags
\* is present exactly when the properties list sf, category exactly when they
\* list ci, ff and flags always; and the example mapping gives its record.
C10_PresentWhenListed ==
    /\ (parsed # NotCalled /\ parsed.exc = "None") =>
          /\ DictHas(parsed.val, kStatusflags) <=> Spelled(props, kSf) # {}
          /\ DictHas(parsed.val, kCategory) <=> Spelled(props, kCi) # {}
          /\ DictHas(parsed.val, kFf) /\ DictHas(parsed.val, kFlags)
    /\ C10ExampleRecord

\* C10 amended: statusflags is present exactly when sf is advertised with a
\* non-empty text (the last spelling of the key deciding), category exactly
\* when ci is, ff and flags always; and the example mapping gives its record.
C10_PresentWhenNonEmpty ==
    /\ (parsed # NotCalled /\ parsed.exc = "None") =>
          /\ DictHas(parsed.val, kStatusflags) <=> AdvertisedNonEmpty(props, kSf)
          /\ DictHas(parsed.val, kCategory) <=> AdvertisedNonEmpty(props, kCi)
          /\ DictHas(parsed.val, kFf) /\ DictHas(parsed.val, kFlags)
    /\ C10ExampleRecord

\* a record was produced for a mapping that lists sf with an empty text, and
\* one with a classified sf and no ci
C10_Witness ==
    /\ parsed.exc = "None"
    /\ Spelled(props, kSf) # {} /\ ~AdvertisedNonEmpty(props, kSf)
    /\ ~DictHas(parsed.val, kStatusflags)
    /\ DictHas(parsed.val, kFlags)

\* the text of the entry of p that spells `key` and is listed last
AdvertisedText(p, key) ==
    p[CHOOSE i \in Spelled(p, key) : \A j \in Spelled(p, key) : j <= i][2]

\* C11: a record parse_discovery_properties produces for a mapping that lists
\* pv in no casing holds pv = "1.0"; a record it produces for a mapping that
\* lists pv holds pv with the advertised text, unchanged.
C11_ProtocolVersion ==
    (parsed # NotCalled /\ parsed.exc = "None") =>
        /\ DictHas(parsed.val, kPv)
        /\ DictGet(parsed.val, kPv) =
              IF Spelled(props, kPv) = {} THEN PyStr(<<"1", ".", "0">>)
              ELSE AdvertisedText(props, kPv)

-----------------------------------------------------------------------------
(* Properties of discover_homekit_devices, checked under SpecDiscover *)

DiscoverEnded == dpc \in {"returned", "raised"}

\* the payload of the announcement lists `key`, in some casing, the entry
\* listed last carrying a non-empty text
HasText(info, key) ==
    \E d \in {decode_discovery_properties(info.properties)} :
        d.exc = "None" /\ AdvertisedNonEmpty(d.val, key)
\* the payload lists `key` in no casing
Lacks(info, key) ==
    \E d \in {decode_discovery_properties(info.properties)} :
        d.exc = "None" /\ Spelled(d.val, key) = {}
\* the returned list holds a record of the announcement (its name)
InResult(info) == \E j \in DOMAIN dout.val : DictGet(dout.val[j], kName) = PyStr(info.name)

\* C1: when a call of discover_homekit_devices has ended, by return or by an
\* exception of the processing loop, its session has been closed exactly once.
C1_DiscoverClosedOnce == DiscoverEnded => dzeroconf.closes = 1

\* C3: a call of discover_homekit_devices returns normally whatever the
\* announcements, and its result holds the record of every collected
\* announcement that decodes, parses and is complete.
C3_OnlyOffenderDropped ==
    DiscoverEnded =>
        /\ dout.exc = "None"
        /\ \A i \in DOMAIN ddata :
              \A data \in {CandidateData(ddata[i])} :
                  (data.exc = "None" /\ ~IsIncomplete(data.val))
                      => \E j \in DOMAIN dout.val : dout.val[j] = data.val

\* C7: every record discover_homekit_devices returns holds c# and md, and an
\* announcement that lacks md or c#, or carries it with an empty text, has
\* no record in the result.
C7_OnlyComplete ==
    dpc = "returned" =>
        /\ \A j \in DOMAIN dout.val :
              DictHas(dout.val[j], kCnum) /\ DictHas(dout.val[j], kMd)
        /\ \A i \in DOMAIN ddata :
              (~HasText(ddata[i], kMd) \/ ~HasText(ddata[i], kCnum)) => ~InResult(ddata[i])

\* the call returned a record, having also collected an announcement that
\* lists c# and no md
C7_Witness ==
    /\ dpc = "returned"
    /\ Len(dout.val) >= 1
    /\ \E i \in DOMAIN ddata :
          HasText(ddata[i], kCnum) /\ Lacks(ddata[i], kMd) /\ ~InResult(ddata[i])

-----------------------------------------------------------------------------
(* Properties of _find_device_ip_and_port and of its adapter, checked under *)
(* SpecFind                                                                 *)

\* the payload of the announcement carries the raw entry id = device_id
HasId(info, device_id) ==
    \E i \in DOMAIN info.properties :
        info.properties[i] = <<Encode(kId), Encode(device_id)>>
\* the payload carries an id entry whose bytes are text
HasDecodableId(info) ==
    \E i \in DOMAIN info.properties :
        /\ info.properties[i][1] = Encode(kId)
        /\ \A j \in DOMAIN info.properties[i][2] : info.properties[i][2][j] < 128
\* the announcements of the list of call c, among the first n, that match
MatchesIn(c, n) == {i \in 1 .. n : HasId(fdata[c][i], fargs[c].device_id)}
\* (address, port) of the announcement: 10.0.0.<k> and 8000 + k for dev<k>
AddressAndPort(info) ==
    << PyStr(<<"1", "0", ".", "0", ".", "0", ".">> \o DecimalText(info.addresses[1][4])),
       PyInt(info.port) >>
PollBudget(c) == 2 * fargs[c].max_seconds

\* C2: a call of _find_device_ip_and_port closes its session at most once,
\* has closed it exactly once when it has ended in any way, and gives its
\* caller a result or an exception only after the close.
C2_FindClosedOnce ==
    \A c \in Calls :
        /\ fzeroconf[c].closes <= 1
        /\ FindEnded(c) => fzeroconf[c].closes = 1
        /\ fout[c] # NotCalled => fzeroconf[c].closes = 1

\* a call ended with the KeyError of an announcement without id, closed
C2_Witness ==
    /\ fpc["sync"] = "raised"
    /\ fout["sync"].exc = "KeyError"
    /\ fzeroconf["sync"].closes = 1

\* C4 as stated: a call that collected no announcement with id = device_id
\* raises AccessoryNotFoundError after exactly max_seconds * 2 polls.
C4_NotFoundAfterTwiceSeconds ==
    \A c \in Calls :
        (FindEnded(c) /\ MatchesIn(c, Len(fdata[c])) = {})
            => fout[c] = DeviceNotFound /\ polls[c] = PollBudget(c)

\* C4 amended: a call that collected no announcement with id = device_id
\* raises AccessoryNotFoundError after exactly max_seconds * 2 + 1 polls,
\* unless one of these polls inspects an announcement whose id is missing or
\* is not text: then that poll ends the call with KeyError or
\* UnicodeDecodeError.
C4_NotFoundAfterTwiceSecondsPlusOne ==
    \A c \in Calls :
        (FindEnded(c) /\ MatchesIn(c, Len(fdata[c])) = {}) =>
            \/ /\ fout[c] = DeviceNotFound
               /\ polls[c] = PollBudget(c) + 1
               /\ \A i \in 1 .. fsnap[c] : HasDecodableId(fdata[c][i])
            \/ /\ fout[c].exc \in {"KeyError", "UnicodeDecodeError"}
               /\ polls[c] \in 1 .. PollBudget(c) + 1
               /\ fi[c] < Len(fdata[c])
               /\ ~HasDecodableId(fdata[c][fi[c] + 1])

\* a call with max_seconds >= 1 that collected an announcement of another
\* device ended with AccessoryNotFoundError
C4_Witness ==
    /\ fpc["sync"] = "raised"
    /\ fout["sync"] = DeviceNotFound
    /\ fargs["sync"].max_seconds >= 1
    /\ Len(fdata["sync"]) >= 1
    /\ polls["sync"] = PollBudget("sync") + 1

\* C5: a poll whose list held, when get_data() returned it, an announcement
\* with id = device_id ends the call with the address and port of the first
\* such announcement, and the loop is not entered again after it.
C5_FirstMatchEndsSearch ==
    \A c \in Calls :
        /\ (FindEnded(c) /\ polls[c] >= 1 /\ MatchesIn(c, fsnap[c]) # {}) =>
              \E i \in MatchesIn(c, fsnap[c]) :
                  /\ \A j \in MatchesIn(c, fsnap[c]) : i <= j
                  /\ fout[c] = Return(AddressAndPort(fdata[c][i]))
        /\ (fpc[c] = "test" /\ polls[c] >= 1) => MatchesIn(c, fsnap[c]) = {}

\* C6: a call that has ended has returned an address and port or raised
\* AccessoryNotFoundError.
C6_FoundOrTimedOut ==
    \A c \in Calls : FindEnded(c) => (fpc[c] = "returned" \/ fout[c] = DeviceNotFound)

\* C8: when the coroutine has ended, it gives what the direct call gave for
\* the same arguments and feed, after as many polls, its session closed once.
C8_AdapterSameOutcome ==
    apc \in {"returned", "raised"} =>
        /\ aout = fout["sync"]
        /\ (apc = "returned") <=> (fpc["sync"] = "returned")
        /\ polls["worker"] = polls["sync"]
        /\ fzeroconf["worker"].closes = 1

\* the coroutine returned the address of a device found after the first poll
C8_Witness ==
    /\ apc = "returned"
    /\ aout.exc = "None"
    /\ polls["worker"] >= 2

-----------------------------------------------------------------------------
(* Properties of CollectingListener, checked under SpecFind *)

\* s is a prefix of t
IsPrefix(s, t) == Len(s) <= Len(t) /\ SubSeq(t, 1, Len(s)) = s
\* the event that is delivered next to the session of call c
NextEvent(c) == feed[fdelivered[c] + 1].event

\* C12: no step removes, replaces or reorders an entry of listener.data: the
\* list before a step is a prefix of the list after it, and a call of
\* remove_service leaves the list as it was.
C12_AppendOnly ==
    [][\A c \in Calls :
          /\ IsPrefix(fdata[c], fdata'[c])
          /\ (fdelivered'[c] # fdelivered[c] /\ NextEvent(c).kind = "remove")
                => fdata'[c] = fdata[c]]_vars

\* remove_service was called with the name of an announcement collected
\* before, which is still in the list
C12_Witness ==
    /\ fdelivered["sync"] = 2
    /\ feed[2].event.kind = "remove"
    /\ Len(fdata["sync"]) = 1
    /\ fdata["sync"][1].name = feed[2].event.name

\* C13: a call of add_service appends the announcement get_service_info
\* returned, once and at the end of listener.data, and leaves the list as it
\* was when get_service_info returned None.
C13_AddAppendsOne ==
    [][\A c \in Calls :
          (fdelivered'[c] # fdelivered[c] /\ NextEvent(c).kind = "add") =>
              fdata'[c] = IF NextEvent(c).info = PyNone THEN fdata[c]
                          ELSE Append(fdata[c], NextEvent(c).info.v)]_vars

\* add_service was called twice, get_service_info returning None the first
\* time and the announcement dev2 the second time
C13_Witness ==
    /\ fdelivered["sync"] = 2
    /\ feed[1].event.kind = "add" /\ feed[1].event.info = PyNone
    /\ feed[2].event.kind = "add" /\ feed[2].event.info # PyNone
    /\ Len(fdata["sync"]) = 1
    /\ fdata["sync"][1].name = DeviceName(2)

-----------------------------------------------------------------------------
(* Properties of the poll loop interleaved with the callbacks of the browser *)
(* thread, checked under SpecFind                                            *)

\* the payload of the announcement carries an id entry
HasIdProperty(info) == \E i \in DOMAIN info.properties : info.properties[i][1] = Encode(kId)
\* the last poll of call c: the poll after which the loop test fails
LastPoll(c) == PollBudget(c) + 1
\* the announcements with id = device_id that were in the list of call c
\* before its last poll called get_data(); a call that ended before its last
\* poll collected all its announcements before it
MatchesBeforeLastPoll(c) ==
    MatchesIn(c, IF polls[c] = LastPoll(c) THEN fsnap[c] ELSE Len(fdata[c]))

\* C14: wherever the calls of add_service fall between the steps of the poll
\* loop, a call that collected only announcements with an id entry, one of
\* them with id = device_id and appended before the last poll called
\* get_data(), returns the address and port of the first such announcement.
C14_MatchBeforeLastPollIsFound ==
    \A c \in Calls :
        (/\ FindEnded(c)
         /\ \A i \in DOMAIN fdata[c] : HasIdProperty(fdata[c][i])
         /\ MatchesBeforeLastPoll(c) # {}) =>
            \E i \in MatchesBeforeLastPoll(c) :
                /\ \A j \in MatchesBeforeLastPoll(c) : i <= j
                /\ fout[c] = Return(AddressAndPort(fdata[c][i]))

-----------------------------------------------------------------------------
(* Properties of the wait and of the enumeration of                         *)
(* discover_homekit_devices, checked under SpecDiscover                     *)

\* the step takes an item of listener.data (line 107) or ends the call
ReadsOrEnds == di' # di \/ dout' # dout

-----------------------------------------------------------------------------
(* Properties of the match of _find_device_ip_and_port, checked under       *)
(* SpecFind                                                                 *)

\* the step of call c compares the id of the next item of the list
Inspects(c) == fpc[c] = "scan" /\ fi[c] < Len(fdata[c]) /\ fclock'[c] # fclock[c]

\* C16: when the loop compares an announcement whose raw id entry equals
\* device_id, the try block ends with its address and port, whatever else the
\* payload lists or lacks; and a call returns nothing but the address and
\* port of such an announcement.
C16_MatchOnRawIdAlone ==
    [][\A c \in Calls :
          /\ (Inspects(c) /\ HasId(fdata[c][fi[c] + 1], fargs[c].device_id)) =>
                /\ fpending'[c] = Return(AddressAndPort(fdata[c][fi[c] + 1]))
                /\ fpc'[c] = "finally"
          /\ fpc'[c] = "returned" =>
                \E i \in DOMAIN fdata'[c] :
                    /\ HasId(fdata'[c][i], fargs'[c].device_id)
                    /\ fout'[c] = Return(AddressAndPort(fdata'[c][i]))]_vars

\* a call returned the address and port of an announcement that lists
\* neither c# nor md and whose ff is no number
C16_Witness ==
    /\ fpc["sync"] = "returned"
    /\ \E i \in DOMAIN fdata["sync"] :
          /\ fout["sync"] = Return(AddressAndPort(fdata["sync"][i]))
          /\ CandidateData(fdata["sync"][i]).exc = "ValueError"
          /\ ~DictHas(fdata["sync"][i].properties, Encode(kCnum))
          /\ ~DictHas(fdata["sync"][i].properties, Encode(kMd))

-----------------------------------------------------------------------------
(* Properties of the list discover_homekit_devices returns, checked under   *)
(* SpecDiscover                                                             *)

\* the collected announcements that are complete: c# and md advertised with a
\* text, by their place in listener.data
CompleteOnes == {i \in DOMAIN ddata : HasText(ddata[i], kCnum) /\ HasText(ddata[i], kMd)}
\* the j-th of them in arrival order
NthComplete(j) == CHOOSE i \in CompleteOnes : Cardinality({k \in CompleteOnes : k <= i}) = j

FromAnnouncement(record, info) ==
    /\ DictHas(record, kName) /\ DictHas(record, kAddress) /\ DictHas(record, kPort)
    /\ DictGet(record, kName) = PyStr(info.name)
    /\ DictGet(record, kAddress) = inet_ntoa(info.addresses[1]).val
    /\ DictGet(record, kPort) = PyInt(info.port)

\* C18: in every record a call returns, name, address and port are those of
\* one collected announcement, whatever keys the payloads list.
C18_RawFieldsKept ==
    dpc = "returned" =>
        \A j \in DOMAIN dout.val : \E i \in DOMAIN ddata : FromAnnouncement(dout.val[j], ddata[i])

\* the call returned a record of an announcement whose payload lists the
\* keys name, address and port
C18_Witness ==
    /\ dpc = "returned"
    /\ \E j \in DOMAIN dout.val, i \in DOMAIN ddata :
          /\ FromAnnouncement(dout.val[j], ddata[i])
          /\ DictHas(ddata[i].properties, Encode(kName))
          /\ DictHas(ddata[i].properties, Encode(kAddress))
          /\ DictHas(ddata[i].properties, Encode(kPort))

-----------------------------------------------------------------------------
(* Properties of get_from_properties, checked under SpecLookup *)

\* the key of the call is in the mapping: as it is written when the lookup
\* is case sensitive, in some casing when it is not
KeyPresent ==
    IF looked.case_sensitive THEN \E i \in DOMAIN props : props[i][1] = looked.key
    ELSE Spelled(props, Lower(looked.key)) # {}
\* the value stored under the key (under the casing listed last, when the
\* lookup is not case sensitive)
StoredValue ==
    IF looked.case_sensitive
    THEN props[CHOOSE i \in DOMAIN props : props[i][1] = looked.key][2]
    ELSE AdvertisedText(props, Lower(looked.key))

====
